---- MODULE Spec2Model ----
(***************************************************************************)
(* Model of rust-worker/src/main.rs: a single-shot image worker.  One      *)
(* invocation reads a JSON request from stdin, resolves an output path,    *)
(* loads the image, optionally resizes and blurs it, saves it, prints one  *)
(* JSON response line and exits.                                           *)
(*                                                                         *)
(* Text is modelled as a sequence of tokens.  The tokens are the           *)
(* characters "a", "b", "d", ".", "/" and the words "_processed", "png",   *)
(* "screenshot" (no token is a prefix of another, so two token sequences   *)
(* are equal exactly when the strings they spell are equal).               *)
(* Option<T> is modelled as a sequence of length 0 (None) or 1 (Some).     *)
(***************************************************************************)
EXTENDS Integers, Sequences, FiniteSets, TLC

\* ---------------------------------------------------------------- bounds
\* longest input path (in tokens) enumerated by SpecPath
MaxLen == 4
\* largest image / resize dimension enumerated by Spec
MaxDim == 2
\* number of successive invocations of the program against one filesystem
MaxRuns == 2

\* ------------------------------------------------------------- Option<T>
None == <<>>
Some(x) == <<x>>
IsSome(o) == Len(o) = 1
Unwrap(o) == o[1]

\* ------------------------------------------------------------ std::path
Sep == "/"
Dot == "."

\* Components::has_physical_root on Unix: the path starts with a separator
HasRoot(p) == Len(p) > 0 /\ p[1] = Sep

\* Components::include_cur_dir: a leading "." followed by nothing or by a
\* separator is the CurDir component
IncludeCurDir(p) ==
    /\ ~HasRoot(p)
    /\ Len(p) >= 1
    /\ p[1] = Dot
    /\ (Len(p) = 1 \/ p[2] = Sep)

\* Components::len_before_body
LenBeforeBody(p) ==
    (IF HasRoot(p) THEN 1 ELSE 0) + (IF IncludeCurDir(p) THEN 1 ELSE 0)

\* Components::parse_single_component: "" and "." are no component,
\* ".." is ParentDir, anything else is Normal
ParseSingleComponent(c) ==
    IF c = <<>> \/ c = <<Dot>> THEN "none"
    ELSE IF c = <<Dot, Dot>> THEN "parent"
    ELSE "normal"

\* Components::parse_next_component_back: the text after the last separator
\* of the body, and how many tokens it takes off the end of the path
ParseNextComponentBack(p) ==
    LET start == LenBeforeBody(p)
        seps  == {i \in (start + 1)..Len(p) : p[i] = Sep}
        last  == IF seps = {} THEN start
                 ELSE CHOOSE i \in seps : \A j \in seps : j <= i
        comp  == SubSeq(p, last + 1, Len(p))
        extra == IF seps = {} THEN 0 ELSE 1
    IN  [size |-> Len(comp) + extra, comp |-> comp,
         kind |-> ParseSingleComponent(comp)]

\* Components::next_back: the last component of the path and what is left
\* of the path in front of it
RECURSIVE NextBack(_)
NextBack(p) ==
    IF Len(p) > LenBeforeBody(p)
    THEN LET c == ParseNextComponentBack(p)
             rest == SubSeq(p, 1, Len(p) - c.size)
         IN  IF c.kind # "none"
             THEN [kind |-> c.kind, name |-> c.comp, rest |-> rest, body |-> TRUE]
             ELSE NextBack(rest)
    ELSE IF HasRoot(p)
    THEN [kind |-> "root", name |-> <<>>, rest |-> <<>>, body |-> FALSE]
    ELSE IF IncludeCurDir(p)
    THEN [kind |-> "curdir", name |-> <<>>, rest |-> <<>>, body |-> FALSE]
    ELSE [kind |-> "end", name |-> <<>>, rest |-> <<>>, body |-> FALSE]

\* Components::trim_right: drop trailing separators and "." components
RECURSIVE TrimRight(_)
TrimRight(p) ==
    IF Len(p) > LenBeforeBody(p)
    THEN LET c == ParseNextComponentBack(p)
         IN  IF c.kind # "none" THEN p
             ELSE TrimRight(SubSeq(p, 1, Len(p) - c.size))
    ELSE p

\* Path::file_name: the last component when it is a Normal component
FileName(p) ==
    LET c == NextBack(p)
    IN  IF c.kind = "normal" THEN Some(c.name) ELSE None

\* Path::parent: the path without its last component; None for a root or
\* an empty path
Parent(p) ==
    LET c == NextBack(p)
    IN  IF c.kind \in {"normal", "curdir", "parent"}
        THEN Some(IF c.body THEN TrimRight(c.rest) ELSE c.rest)
        ELSE None

\* rsplit_file_at_dot: split a file name at its last dot; a name whose only
\* dot is the leading one has no extension
RsplitFileAtDot(f) ==
    LET dots == {i \in 1..Len(f) : f[i] = Dot}
        last == CHOOSE i \in dots : \A j \in dots : j <= i
    IN  IF f = <<Dot, Dot>> THEN [before |-> Some(f), after |-> None]
        ELSE IF dots = {} THEN [before |-> None, after |-> Some(f)]
        ELSE IF last = 1 THEN [before |-> Some(f), after |-> None]
        ELSE [before |-> Some(SubSeq(f, 1, last - 1)),
              after  |-> Some(SubSeq(f, last + 1, Len(f)))]

\* Path::file_stem: before.or(after)
FileStem(p) ==
    LET n == FileName(p)
    IN  IF ~IsSome(n) THEN None
        ELSE LET s == RsplitFileAtDot(Unwrap(n))
             IN  IF IsSome(s.before) THEN s.before ELSE s.after

\* Path::extension: before.and(after)
Extension(p) ==
    LET n == FileName(p)
    IN  IF ~IsSome(n) THEN None
        ELSE LET s == RsplitFileAtDot(Unwrap(n))
             IN  IF IsSome(s.before) THEN s.after ELSE None

\* PathBuf::push of a relative name: a separator is added unless the buffer
\* is empty or already ends with one
Push(p, name) ==
    IF Len(name) > 0 /\ name[1] = Sep THEN name
    ELSE IF Len(p) > 0 /\ p[Len(p)] # Sep THEN p \o <<Sep>> \o name
    ELSE p \o name

\* set_file_name that pushes the new name without popping the old one
SetFileNameNoPop(p, name) == Push(p, name)

\* PathBuf::set_file_name: pop the file name when there is one, then push
SetFileName(p, name) ==
    IF IsSome(FileName(p)) THEN Push(Unwrap(Parent(p)), name)
    ELSE Push(p, name)


\* ------------------------------------------------------ ProcessRequest
\* blur_sigma values (f32 read from JSON, so never NaN): negative, zero,
\* and two positive strengths
Sigmas == {-1, 0, 1, 2}
\* resize components are u32: zero is accepted by the decoder
Dims == 0..MaxDim
\* paths used by whole-program runs: "a.png" and "d/b"
RunPaths == {<<"a", ".", "png">>, <<"d", "/", "b">>}

Opt(S) == {None} \cup {Some(x) : x \in S}

ProcessRequest ==
    [path : RunPaths, blur_sigma : Opt(Sigmas),
     resize : Opt(Dims \X Dims), out_path : Opt(RunPaths)]

\* ----------------------------------------------------------- file contents
NoFile == [kind |-> "none", w |-> 0, h |-> 0, hist |-> <<>>]
Corrupt == [kind |-> "corrupt", w |-> 0, h |-> 0, hist |-> <<>>]
\* a decodable image: its dimensions and the transformations applied to the
\* original pixels so far
Image(w, h, hist) == [kind |-> "image", w |-> w, h |-> h, hist |-> hist]
SourceImages == {Image(w, h, <<>>) : w \in 1..MaxDim, h \in 1..MaxDim}

FileAt(f, p) == IF p \in DOMAIN f THEN f[p] ELSE NoFile
WriteFile(f, p, c) == [q \in DOMAIN f \cup {p} |-> IF q = p THEN c ELSE f[q]]

\* -------------------------------------------------------------- stdin
\* what standard input holds: an unreadable stream, text that is not JSON,
\* JSON without the required field path, or a well-formed request
NoRequest ==
    [path |-> <<>>, blur_sigma |-> None, resize |-> None, out_path |-> None]
StdinErrors ==
    {[kind |-> k, req |-> NoRequest] : k \in {"ioerr", "malformed", "nopath"}}
StdinRequests == {[kind |-> "request", req |-> r] : r \in ProcessRequest}

\* texts of the underlying errors raised below main
IoReadCause == "stream did not contain valid UTF-8"
JsonSyntaxCause == "expected value at line 1 column 1"
JsonMissingCause == "missing field path"
NotFoundCause == "No such file or directory (os error 2)"
DecodeCause == "Format error decoding image"
SaveCause == "Permission denied (os error 13)"
NoCause == ""

\* serde_json::from_str::<ProcessRequest>
FromStr(text) ==
    IF text.kind = "request"
    THEN [ok |-> TRUE, req |-> text.req, err |-> NoCause]
    ELSE [ok |-> FALSE, req |-> NoRequest,
          err |-> IF text.kind = "nopath" THEN JsonMissingCause
                  ELSE JsonSyntaxCause]

\* ---------------------------------------------------- ProcessResponse
\* the failure response built in each error branch of main
FailureResponse(msg) == [ok |-> FALSE, out_path |-> <<>>, msg |-> msg]

\* a success response that leaves out_path empty
SuccessResponseNoPath(out) ==
    [ok |-> TRUE, out_path |-> <<>>, msg |-> <<"Image processed successfully">>]

\* the response process_image returns on success
SuccessResponse(out) ==
    [ok |-> TRUE, out_path |-> out, msg |-> <<"Image processed successfully">>]

NoResponse == [ok |-> FALSE, out_path |-> <<>>, msg |-> <<>>]

\* anyhow::Error made by with_context: the context message wraps the cause
WithContext(context, source) == [context |-> context, source |-> source]
NoError == WithContext(<<>>, NoCause)

\* Display of an anyhow::Error ("{}"): the outermost context message only;
\* the wrapped source is printed only by "{:#}" or "{:?}"
Display(e) == e.context

\* ------------------------------------------------------ process_image
\* a derived name without the "_processed" suffix
ProcessedNameNoSuffix(stem, ext) == stem \o <<Dot>> \o ext

\* the file name of the derived output path
ProcessedName(stem, ext) == stem \o <<"_processed", Dot>> \o ext

\* lines 28-42: the explicit out_path, or the sibling of the input
\* "{stem}_processed.{ext}"
ResolveOutPath(req) ==
    IF IsSome(req.out_path) THEN Unwrap(req.out_path)
    ELSE LET p    == req.path
             stem == IF IsSome(FileStem(p)) THEN Unwrap(FileStem(p))
                     ELSE <<"screenshot">>
             ext  == IF IsSome(Extension(p)) THEN Unwrap(Extension(p))
                     ELSE <<"png">>
         IN  SetFileName(p, ProcessedName(stem, ext))

\* image::open: the file must exist and decode
ImageOpen(f, p) ==
    LET c == FileAt(f, p)
    IN  IF c.kind = "image" THEN [ok |-> TRUE, img |-> c, err |-> NoCause]
        ELSE [ok |-> FALSE, img |-> NoFile,
              err |-> IF c.kind = "none" THEN NotFoundCause ELSE DecodeCause]

\* resize_exact with width and height swapped
ResizeExactSwapped(img, w, h) ==
    IF img.w = h /\ img.h = w THEN img
    ELSE Image(h, w, Append(img.hist, [op |-> "resize", a |-> h, b |-> w]))

\* DynamicImage::resize_exact: exactly the requested dimensions; resampling
\* to the dimensions the image already has returns a copy of it
ResizeExact(img, w, h) ==
    IF img.w = w /\ img.h = h THEN img
    ELSE Image(w, h, Append(img.hist, [op |-> "resize", a |-> w, b |-> h]))

\* imageops::blur: same dimensions, pixels smoothed once more
Blur(img, sigma) ==
    Image(img.w, img.h, Append(img.hist, [op |-> "blur", a |-> sigma, b |-> 0]))

\* ------------------------------------------------------------- state
VARIABLES
    stdin,      \* what standard input holds (the same for every run)
    writable,   \* whether the environment lets img.save succeed
    fs,         \* the filesystem: path -> file contents
    run,        \* which invocation of the program this is
    pc,         \* position of the running invocation
    input,      \* main: the text read from stdin
    request,    \* main: the decoded ProcessRequest
    out_path,   \* process_image: the resolved output path
    img,        \* process_image: the image being transformed
    result,     \* what process_image returned to main
    stdout,     \* lines printed by this invocation
    exits,      \* exit codes passed to std::process::exit by this invocation
    steps,      \* history: the library calls this invocation made, in order
    fsStart,    \* history: the filesystem when this invocation started
    fsAfter1    \* history: the filesystem when the first invocation exited

vars == <<stdin, writable, fs, run, pc, input, request, out_path, img, result,
          stdout, exits, steps, fsStart, fsAfter1>>

env == <<stdin, writable>>
hist == <<fsStart, fsAfter1>>

NoResult == [ok |-> FALSE, resp |-> NoResponse, err |-> NoError]

\* the state of a freshly started process
FreshInput == [kind |-> "ioerr", req |-> NoRequest]

Init ==
    /\ stdin \in StdinErrors \cup StdinRequests
    /\ writable \in BOOLEAN
    /\ fs \in [RunPaths -> {NoFile, Corrupt} \cup SourceImages]
    /\ run = 1
    /\ pc = "start"
    /\ input = FreshInput
    /\ request = NoRequest
    /\ out_path = <<>>
    /\ img = NoFile
    /\ result = NoResult
    /\ stdout = <<>>
    /\ exits = <<>>
    /\ steps = <<>>
    /\ fsStart = fs
    /\ fsAfter1 = fs

\* println!("{}", serde_json::to_string(&response).unwrap());
\* std::process::exit(code);
PrintlnAndExit(response, code) ==
    /\ stdout' = Append(stdout, response)
    /\ exits' = Append(exits, code)
    /\ pc' = "exited"
    /\ fsAfter1' = IF run = 1 THEN fs ELSE fsAfter1

\* main, lines 82-92: read all of stdin
ReadStdin ==
    /\ pc = "start"
    /\ IF stdin.kind = "ioerr"
       THEN /\ PrintlnAndExit(
                  FailureResponse(<<"Failed to read stdin: ", IoReadCause>>), 1)
            /\ UNCHANGED input
       ELSE /\ input' = stdin
            /\ pc' = "parse"
            /\ UNCHANGED <<stdout, exits, fsAfter1>>
    /\ UNCHANGED <<env, fs, run, request, out_path, img, result, steps, fsStart>>

\* ParseRequest exiting with code 0 after a decode failure
ParseRequestExitZero ==
    /\ pc = "parse"
    /\ LET r == FromStr(input)
       IN  IF r.ok
           THEN /\ request' = r.req
                /\ pc' = "resolve"
                /\ UNCHANGED <<stdout, exits, fsAfter1>>
           ELSE /\ PrintlnAndExit(
                      FailureResponse(<<"Invalid request: ", r.err>>), 0)
                /\ UNCHANGED request
    /\ UNCHANGED <<env, fs, run, input, out_path, img, result, steps, fsStart>>

\* main, lines 94-106: decode the request
ParseRequest ==
    /\ pc = "parse"
    /\ LET r == FromStr(input)
       IN  IF r.ok
           THEN /\ request' = r.req
                /\ pc' = "resolve"
                /\ UNCHANGED <<stdout, exits, fsAfter1>>
           ELSE /\ PrintlnAndExit(
                      FailureResponse(<<"Invalid request: ", r.err>>), 1)
                /\ UNCHANGED request
    /\ UNCHANGED <<env, fs, run, input, out_path, img, result, steps, fsStart>>

\* process_image, lines 27-42: determine the output path
DetermineOutPath ==
    /\ pc = "resolve"
    /\ out_path' = ResolveOutPath(request)
    /\ pc' = "load"
    /\ UNCHANGED <<env, fs, run, input, request, img, result, stdout, exits,
                   steps, hist>>

\* LoadImage that does not return early when the open fails
LoadImageNoReturn ==
    /\ pc = "load"
    /\ LET r == ImageOpen(fs, request.path)
       IN  /\ steps' = Append(steps, [op |-> "load", ok |-> r.ok])
           /\ img' = r.img
           /\ pc' = "resize"
           /\ UNCHANGED result
    /\ UNCHANGED <<env, fs, run, input, request, out_path, stdout, exits, hist>>

\* process_image, lines 44-46: load the image; a failure returns early
LoadImage ==
    /\ pc = "load"
    /\ LET r == ImageOpen(fs, request.path)
       IN  /\ steps' = Append(steps, [op |-> "load", ok |-> r.ok])
           /\ IF r.ok
              THEN /\ img' = r.img
                   /\ pc' = "resize"
                   /\ UNCHANGED result
              ELSE /\ result' = [ok |-> FALSE, resp |-> NoResponse,
                                 err |-> WithContext(
                                     <<"Failed to open image: ">> \o request.path,
                                     r.err)]
                   /\ pc' = "return"
                   /\ UNCHANGED img
    /\ UNCHANGED <<env, fs, run, input, request, out_path, stdout, exits, hist>>

\* process_image, lines 49-55: resize when requested
ApplyResize ==
    /\ pc = "resize"
    /\ IF IsSome(request.resize)
       THEN LET d == Unwrap(request.resize)
            IN  /\ img' = ResizeExact(img, d[1], d[2])
                /\ steps' = Append(steps, [op |-> "resize", ok |-> TRUE])
       ELSE UNCHANGED <<img, steps>>
    /\ pc' = "blur"
    /\ UNCHANGED <<env, fs, run, input, request, out_path, result, stdout,
                   exits, hist>>

\* ApplyBlur that also blurs when sigma is zero
ApplyBlurNonNegative ==
    /\ pc = "blur"
    /\ IF IsSome(request.blur_sigma) /\ Unwrap(request.blur_sigma) >= 0
       THEN /\ img' = Blur(img, Unwrap(request.blur_sigma))
            /\ steps' = Append(steps, [op |-> "blur", ok |-> TRUE])
       ELSE UNCHANGED <<img, steps>>
    /\ pc' = "save"
    /\ UNCHANGED <<env, fs, run, input, request, out_path, result, stdout,
                   exits, hist>>

\* process_image, lines 57-61: blur when sigma is present and positive
ApplyBlur ==
    /\ pc = "blur"
    /\ IF IsSome(request.blur_sigma) /\ Unwrap(request.blur_sigma) > 0
       THEN /\ img' = Blur(img, Unwrap(request.blur_sigma))
            /\ steps' = Append(steps, [op |-> "blur", ok |-> TRUE])
       ELSE UNCHANGED <<img, steps>>
    /\ pc' = "save"
    /\ UNCHANGED <<env, fs, run, input, request, out_path, result, stdout,
                   exits, hist>>

\* SaveImage that embeds the number of the run (a timestamp) in the file
SaveImageStamped ==
    /\ pc = "save"
    /\ steps' = Append(steps, [op |-> "save", ok |-> writable])
    /\ IF writable
       THEN /\ fs' = WriteFile(fs, out_path,
                       Image(img.w, img.h,
                             Append(img.hist,
                                    [op |-> "stamp", a |-> run, b |-> 0])))
            /\ result' = [ok |-> TRUE, resp |-> SuccessResponse(out_path),
                          err |-> NoError]
       ELSE /\ result' = [ok |-> FALSE, resp |-> NoResponse,
                          err |-> WithContext(
                              <<"Failed to save image: ">> \o out_path,
                              SaveCause)]
            /\ UNCHANGED fs
    /\ pc' = "return"
    /\ UNCHANGED <<env, run, input, request, out_path, img, stdout, exits, hist>>

\* process_image, lines 63-71: save the result; the save either writes the
\* whole file or fails leaving the file as it was
SaveImage ==
    /\ pc = "save"
    /\ steps' = Append(steps, [op |-> "save", ok |-> writable])
    /\ IF writable
       THEN /\ fs' = WriteFile(fs, out_path, img)
            /\ result' = [ok |-> TRUE, resp |-> SuccessResponse(out_path),
                          err |-> NoError]
       ELSE /\ result' = [ok |-> FALSE, resp |-> NoResponse,
                          err |-> WithContext(
                              <<"Failed to save image: ">> \o out_path,
                              SaveCause)]
            /\ UNCHANGED fs
    /\ pc' = "return"
    /\ UNCHANGED <<env, run, input, request, out_path, img, stdout, exits, hist>>

\* EmitResult that exits after a processing failure without printing
EmitResultSilentFailure ==
    /\ pc = "return"
    /\ IF result.ok
       THEN PrintlnAndExit(result.resp, 0)
       ELSE /\ exits' = Append(exits, 1)
            /\ pc' = "exited"
            /\ fsAfter1' = IF run = 1 THEN fs ELSE fsAfter1
            /\ UNCHANGED stdout
    /\ UNCHANGED <<env, fs, run, input, request, out_path, img, result, steps,
                   fsStart>>

\* main, lines 108-123: print the outcome of process_image and exit
EmitResult ==
    /\ pc = "return"
    /\ IF result.ok
       THEN PrintlnAndExit(result.resp, 0)
       ELSE PrintlnAndExit(
                FailureResponse(<<"Processing failed: ">> \o Display(result.err)),
                1)
    /\ UNCHANGED <<env, fs, run, input, request, out_path, img, result, steps,
                   fsStart>>

\* the program is started again with the same stdin on the same filesystem
RunAgain ==
    /\ pc = "exited"
    /\ run < MaxRuns
    /\ run' = run + 1
    /\ pc' = "start"
    /\ input' = FreshInput
    /\ request' = NoRequest
    /\ out_path' = <<>>
    /\ img' = NoFile
    /\ result' = NoResult
    /\ stdout' = <<>>
    /\ exits' = <<>>
    /\ steps' = <<>>
    /\ fsStart' = fs
    /\ UNCHANGED <<env, fs, fsAfter1>>

\* one step of the running invocation
Step ==
    \/ ReadStdin
    \/ ParseRequest
    \/ DetermineOutPath
    \/ LoadImage
    \/ ApplyResize
    \/ ApplyBlur
    \/ SaveImage
    \/ EmitResult

Next == Step \/ RunAgain

Spec == Init /\ [][Next]_vars


\* ------------------------------------------- output path resolution alone
\* tokens input paths are spelled with
PathTokens == {"a", Dot, Sep, "_processed", "png", "screenshot"}
PathStrings == UNION {[1..n -> PathTokens] : n \in 0..MaxLen}
\* explicit out_path values: an ordinary name, the empty string, a directory
ExplicitOuts == {<<"b", Dot, "png">>, <<>>, <<"d", Sep>>}

PathRequests ==
    [path : PathStrings, blur_sigma : {None}, resize : {None},
     out_path : Opt(ExplicitOuts)]

\* process_image entered with an arbitrary request path
InitPath ==
    /\ stdin \in {[kind |-> "request", req |-> r] : r \in PathRequests}
    /\ writable = TRUE
    /\ fs = [q \in {} |-> NoFile]
    /\ run = 1
    /\ pc = "resolve"
    /\ input = stdin
    /\ request = stdin.req
    /\ out_path = <<>>
    /\ img = NoFile
    /\ result = NoResult
    /\ stdout = <<>>
    /\ exits = <<>>
    /\ steps = <<>>
    /\ fsStart = fs
    /\ fsAfter1 = fs

NextPath == DetermineOutPath

SpecPath == InitPath /\ [][NextPath]_vars


\* ===================================================================
\* Properties
\* ===================================================================
Exited == pc = "exited"
\* the response line this invocation printed
Response == stdout[1]
Ops == [i \in 1..Len(steps) |-> steps[i].op]
Attempted(op) == \E i \in 1..Len(steps) : steps[i].op = op
Succeeded(op) == \E i \in 1..Len(steps) : steps[i].op = op /\ steps[i].ok
Failed(op) == \E i \in 1..Len(steps) : steps[i].op = op /\ ~steps[i].ok
Elements(seq) == {seq[i] : i \in 1..Len(seq)}
BlurRequested ==
    IsSome(request.blur_sigma) /\ Unwrap(request.blur_sigma) > 0

\* how far along main an invocation is
PcRank(l) ==
    CASE l = "start" -> 1 [] l = "parse" -> 2 [] l = "resolve" -> 3
      [] l = "load" -> 4 [] l = "resize" -> 5 [] l = "blur" -> 6
      [] l = "save" -> 7 [] l = "return" -> 8 [] l = "exited" -> 9

\* C1: every invocation, whatever fails, ends after printing exactly one
\* response line and calling exit exactly once: never two lines, never two
\* exits, never an exit without a line or a line without an exit; and every
\* step moves the run strictly forward towards its exit (no retries, no
\* loops back), so the run terminates.
C1_OneLineOneExit ==
    /\ [](/\ Len(stdout) <= 1
          /\ Len(exits) <= 1
          /\ Len(exits) = Len(stdout)
          /\ (Exited <=> Len(exits) = 1))
    /\ [][IF run' = run THEN PcRank(pc') > PcRank(pc)
          ELSE Exited /\ pc' = "start" /\ stdout' = <<>> /\ exits' = <<>>]_vars

\* C1 witness: a run whose save failed has ended with one line and one exit
C1_Witness ==
    Exited /\ Len(stdout) = 1 /\ Len(exits) = 1 /\ Failed("save")

\* C2: the exit code is 0 exactly when the printed response has ok = true,
\* and it is 1 after a stdin read failure, a decode failure or a processing
\* failure.
C2_ExitCode ==
    Exited =>
        /\ exits[1] \in {0, 1}
        /\ (exits[1] = 0 <=> Response.ok)
        /\ (stdin.kind # "request" \/ Failed("load") \/ Failed("save"))
               => exits[1] = 1
        /\ (stdin.kind = "request" /\ Succeeded("load") /\ Succeeded("save"))
               => exits[1] = 0

\* C2 witness: a decode failure has exited with code 1
C2_Witness ==
    Exited /\ stdin.kind = "nopath" /\ exits = <<1>> /\ ~Response.ok

\* C3: the response has ok = true only if load and save both succeeded; then
\* out_path is the resolved output path, msg is "Image processed
\* successfully" and a file exists at out_path; otherwise ok = false and
\* out_path is the empty string.
C3_Response ==
    Exited =>
        IF Succeeded("load") /\ Succeeded("save")
        THEN /\ Response.ok
             /\ Response.out_path = out_path
             /\ (IsSome(request.out_path)
                    => Response.out_path = Unwrap(request.out_path))
             /\ Response.msg = <<"Image processed successfully">>
             /\ FileAt(fs, Response.out_path).kind = "image"
        ELSE /\ ~Response.ok
             /\ Response.out_path = <<>>

\* C3 witness: a successful run wrote a file that did not exist before
C3_Witness ==
    /\ Exited
    /\ Response.ok
    /\ FileAt(fsStart, Response.out_path).kind = "none"
    /\ FileAt(fs, Response.out_path).kind = "image"

\* C5: after a successful run the saved image has exactly the requested
\* dimensions when resize is present (whatever the input dimensions and
\* blur_sigma), and the input's dimensions when resize and blur_sigma are
\* both absent.
C5_Dimensions ==
    (Exited /\ Response.ok) =>
        LET saved == FileAt(fs, out_path)
            src   == FileAt(fsStart, request.path)
        IN  /\ IsSome(request.resize) =>
                   /\ saved.w = Unwrap(request.resize)[1]
                   /\ saved.h = Unwrap(request.resize)[2]
            /\ (~IsSome(request.resize) /\ ~IsSome(request.blur_sigma)) =>
                   /\ saved.w = src.w
                   /\ saved.h = src.h

\* C5 witness: a blurred, non-square resize of an image of other dimensions
C5_Witness ==
    /\ Exited
    /\ Response.ok
    /\ IsSome(request.resize)
    /\ Unwrap(request.resize)[1] # Unwrap(request.resize)[2]
    /\ BlurRequested
    /\ FileAt(fsStart, request.path).w # Unwrap(request.resize)[1]
    /\ FileAt(fs, out_path).w = Unwrap(request.resize)[1]

\* the text of the underlying error behind this invocation's failure
UnderlyingCause ==
    IF stdin.kind = "ioerr" THEN IoReadCause
    ELSE IF stdin.kind # "request" THEN FromStr(stdin).err
    ELSE result.err.source

\* C6: every failure response's msg includes the text of the underlying
\* cause of the error (for open and save failures in addition to the context
\* tag and the path).
C6_CauseInMsg ==
    (Exited /\ ~Response.ok) => UnderlyingCause \in Elements(Response.msg)

\* C7 as claimed: after the second of two runs of the same request the output
\* file has the content it had after the first run, for every request.
C7_IdempotentAlways ==
    (Exited /\ run = 2) => FileAt(fs, out_path) = FileAt(fsAfter1, out_path)

\* C7: after the second of two runs of the same request the output file has
\* the content it had after the first run, provided the resolved output path
\* does not name the input file.
C7_IdempotentDistinctOutput ==
    (Exited /\ run = 2 /\ out_path # request.path) =>
        /\ FileAt(fs, out_path) = FileAt(fsAfter1, out_path)
        /\ fs = fsAfter1

\* C7 witness: a second successful run blurred into a separate output file
C7_Witness ==
    /\ Exited
    /\ run = 2
    /\ Response.ok
    /\ Succeeded("blur")
    /\ out_path # request.path
    /\ FileAt(fs, out_path).hist # <<>>

\* the position of each library call in the pipeline
Rank(op) ==
    CASE op = "load" -> 1 [] op = "resize" -> 2 [] op = "blur" -> 3
      [] op = "save" -> 4

\* the calls process_image makes for `request` once the load succeeded
PipelineOps ==
    <<"load">> \o (IF IsSome(request.resize) THEN <<"resize">> ELSE <<>>)
               \o (IF BlurRequested THEN <<"blur">> ELSE <<>>)
               \o <<"save">>

\* C8: process_image calls load, resize, blur, save in that order; resize
\* runs iff resize is present, blur runs on the (possibly resized) image iff
\* blur_sigma is present and > 0, blur never precedes resize, and save is
\* attempted only after a successful load and all requested transformations.
C8_StepOrder ==
    /\ \A i, j \in 1..Len(steps) : i < j => Rank(steps[i].op) < Rank(steps[j].op)
    /\ Attempted("save") => (Succeeded("load") /\ Ops = PipelineOps)
    /\ (pc \in {"return", "exited"} /\ stdin.kind = "request") =>
           IF Succeeded("load") THEN Ops = PipelineOps ELSE Ops = <<"load">>
    /\ (pc \in {"return", "exited"} /\ Succeeded("load")) =>
           LET loaded  == FileAt(fsStart, request.path)
               resized == IF IsSome(request.resize)
                          THEN ResizeExact(loaded, Unwrap(request.resize)[1],
                                           Unwrap(request.resize)[2])
                          ELSE loaded
           IN  img = IF BlurRequested
                     THEN Blur(resized, Unwrap(request.blur_sigma))
                     ELSE resized

\* C8 witness: all four calls were made
C8_Witness ==
    Exited /\ Ops = <<"load", "resize", "blur", "save">> /\ img.hist # <<>>

\* C9: a run that ends with a failure response leaves the filesystem as it
\* was before the run; the filesystem changes only on runs that end with
\* ok = true; no save is attempted after a failed read, decode or open.
C9_FailureLeavesFiles ==
    /\ (Exited /\ ~Response.ok) => fs = fsStart
    /\ (fs # fsStart) => (Succeeded("save") /\ (Exited => Response.ok))
    /\ (stdin.kind # "request" \/ Failed("load")) => ~Attempted("save")

\* C9 witness: a failed save left an existing output file untouched
C9_Witness ==
    /\ Exited
    /\ ~Response.ok
    /\ Failed("save")
    /\ FileAt(fs, out_path).kind # "none"
    /\ FileAt(fs, out_path) # img

\* ------------------------------------------------ claims on path resolution
Resolved == pc = "load"
LastDot(n) ==
    LET dots == {i \in 1..Len(n) : n[i] = Dot}
    IN  IF dots = {} THEN 0 ELSE CHOOSE i \in dots : \A j \in dots : j <= i

\* the stem of a file name: the text before its last dot, the whole name
\* when it has no dot after its first character
StemOf(n) == IF LastDot(n) > 1 THEN SubSeq(n, 1, LastDot(n) - 1) ELSE n

\* the extension the code uses: the text after the last dot (empty when the
\* name ends in a dot), "png" when the name has no dot after its first
\* character
ExtOf(n) ==
    IF LastDot(n) > 1 THEN SubSeq(n, LastDot(n) + 1, Len(n)) ELSE <<"png">>

\* the extension as claimed: "png" also when the name ends in a dot
ExtClaimed(n) ==
    IF LastDot(n) > 1 /\ LastDot(n) < Len(n)
    THEN SubSeq(n, LastDot(n) + 1, Len(n))
    ELSE <<"png">>

\* out is the file `name` placed beside the input p (or below p when p has
\* no file name component)
PlacedBeside(out, p, name) ==
    /\ FileName(out) = Some(name)
    /\ IF IsSome(FileName(p))
       THEN Parent(out) = Parent(p)
       ELSE out \in {p \o name, p \o <<Sep>> \o name}

ResolvedAs(ext(_)) ==
    IF IsSome(request.out_path) THEN out_path = Unwrap(request.out_path)
    ELSE IF IsSome(FileName(request.path))
    THEN LET n == Unwrap(FileName(request.path))
         IN  PlacedBeside(out_path, request.path,
                          StemOf(n) \o <<"_processed", Dot>> \o ext(n))
    ELSE PlacedBeside(out_path, request.path,
                      <<"screenshot", "_processed", Dot, "png">>)

\* C4 as claimed: an explicit out_path is used verbatim; otherwise the
\* result is "{stem}_processed.{ext}" beside the input, with stem defaulting
\* to "screenshot" and ext to "png", "png" also for names ending in a dot.
C4_ResolutionClaimed == Resolved => ResolvedAs(ExtClaimed)

\* C4: an explicit out_path is used verbatim; otherwise the result is
\* "{stem}_processed.{ext}" beside the input, with stem defaulting to
\* "screenshot" and ext to "png" when the input has no file name or its name
\* has no extension; a name ending in a dot has the empty extension, which
\* is kept.
C4_Resolution ==
    /\ Resolved => ResolvedAs(ExtOf)
    /\ (Resolved /\ request.out_path = None) =>
           /\ request.path = <<"a", Dot, "png">>
                  => out_path = <<"a", "_processed", Dot, "png">>
           /\ request.path = <<"a">>
                  => out_path = <<"a", "_processed", Dot, "png">>
           /\ request.path = <<>>
                  => out_path = <<"screenshot", "_processed", Dot, "png">>

\* C4 witness: a name ending in a dot was resolved with an empty extension
C4_Witness ==
    /\ Resolved
    /\ request.out_path = None
    /\ request.path = <<"a", Dot>>
    /\ out_path = <<"a", "_processed", Dot>>

\* C10: without an explicit out_path the derived output path differs from
\* the input path, so the run cannot save over its own input.
C10_DerivedDiffers ==
    (Resolved /\ request.out_path = None)
        => /\ out_path # request.path
           /\ FileName(out_path) # FileName(request.path)

\* C10 witness: an input already named "a_processed.png" was resolved
C10_Witness ==
    /\ Resolved
    /\ request.out_path = None
    /\ request.path = <<"a", "_processed", Dot, "png">>
    /\ out_path = <<"a", "_processed", "_processed", Dot, "png">>

====
